---- MODULE Spec2Model ----
(***************************************************************************)
(* A model of convert_sprite.py: the PNG to RGB565 converter.  One run of  *)
(* the program is main() followed by convert_png_to_bin(); the model       *)
(* follows the run statement by statement.  Strings are sequences of       *)
(* one-character strings, optional values are <<>> (None) or <<v>>.        *)
(***************************************************************************)
EXTENDS Integers, Sequences, FiniteSets, TLC

VARIABLES
    input,              \* args.input: the input path
    rows,               \* args.rows
    output,             \* args.output: None or a string
    background,         \* args.background: None or a string
    png,                \* the file system at the input path: missing, corrupt or a raster
    dir_exists,         \* whether the directory of the output files exists
    pc,                 \* the statement the run is at
    output_base,        \* main's output_base
    img,                \* convert_png_to_bin's img once opened and converted to RGBA
    frame_height,       \* height // rows
    transparent_color,  \* the substitution colour once resolved
    frame_idx,          \* the loop variable of the frame loop
    frame,              \* the crop box of the current frame
    x, y,               \* the loop variables of the pixel loops
    disk,               \* the output files on disk: name -> bytes
    open_file,          \* the file the with-block holds open
    opens,              \* the names opened for writing, in the order of the calls
    image_opens,        \* how many times Image.open has been called
    stdout,             \* the lines printed, by kind
    exit_code,          \* the exit status once the process has ended
    failed_frame,       \* the frame index at which opening or writing failed
    emitted,            \* per pixel written: where it was read and the colour packed
    arg, ret            \* the argument and the result of a function applied on its own

vars == <<input, rows, output, background, png, dir_exists, pc, output_base, img,
          frame_height, transparent_color, frame_idx, frame, x, y, disk, open_file,
          opens, image_opens, stdout, exit_code, failed_frame, emitted, arg, ret>>

None == <<>>
Some(v) == <<v>>

-----------------------------------------------------------------------------
(* Bounds of the model. *)

MaxWidth == 2
MaxHeight == 3
MaxRows == 3
MaxPathLen == 4
MaxBgLen == 7

-----------------------------------------------------------------------------
(* Integer helpers: Python's operators on the values the program gives them. *)

RECURSIVE Pow2(_)
Pow2(n) == IF n = 0 THEN 1 ELSE 2 * Pow2(n - 1)

\* a >> n: Python's right shift is the floor division by 2^n, negative a included.
ShiftRight(a, n) == a \div Pow2(n)

\* a << n
ShiftLeft(a, n) == a * Pow2(n)

\* a & mask for a mask of n low one-bits (0x1F, 0x3F): on Python's unbounded
\* two's complement integers that is a modulo 2^n, negative a included.
MaskLow(a, n) == a % Pow2(n)

\* a | b for a, b >= 0, bit by bit.
RECURSIVE BitOr(_, _)
BitOr(a, b) ==
    IF a = 0 THEN b
    ELSE IF b = 0 THEN a
    ELSE (IF (a % 2 = 1) \/ (b % 2 = 1) THEN 1 ELSE 0) + 2 * BitOr(a \div 2, b \div 2)

\* A variant that rounds the green channel to 5 bits, as RGB555 code would.
rgb888_to_rgb565_green5(r, g, b) ==
    BitOr(BitOr(ShiftLeft(MaskLow(ShiftRight(r, 3), 5), 11),
                ShiftLeft(MaskLow(ShiftRight(g, 3), 6), 5)),
          MaskLow(ShiftRight(b, 3), 5))

rgb888_to_rgb565(r, g, b) ==
    LET r5 == MaskLow(ShiftRight(r, 3), 5)
        g6 == MaskLow(ShiftRight(g, 2), 6)
        b5 == MaskLow(ShiftRight(b, 3), 5)
    IN  BitOr(BitOr(ShiftLeft(r5, 11), ShiftLeft(g6, 5)), b5)

\* struct.pack('>H', v): two bytes, the most significant first.
PackBigEndianH(v) == <<v \div 256, v % 256>>

-----------------------------------------------------------------------------
(* String helpers: Python's str methods, on sequences of characters. *)

HexDigits == <<"0", "1", "2", "3", "4", "5", "6", "7", "8", "9",
               "a", "b", "c", "d", "e", "f">>
HexDigitsUpper == <<"0", "1", "2", "3", "4", "5", "6", "7", "8", "9",
                    "A", "B", "C", "D", "E", "F">>

IsHexDigit(c) == \E i \in 1..16 : HexDigits[i] = c \/ HexDigitsUpper[i] = c

HexValue(c) == (CHOOSE i \in 1..16 : HexDigits[i] = c \/ HexDigitsUpper[i] = c) - 1

IsSpace(c) == c \in {" ", "\t", "\n"}

\* s[lo:hi] with 0 <= lo <= hi: Python cuts the slice to the string's length.
Slice(s, lo, hi) ==
    LET last == IF hi < Len(s) THEN hi ELSE Len(s)
    IN  IF lo >= last THEN <<>> ELSE SubSeq(s, lo + 1, last)

\* s.lstrip(c): every leading c goes, not only the first.
RECURSIVE LStrip(_, _)
LStrip(s, c) == IF s # <<>> /\ Head(s) = c THEN LStrip(Tail(s), c) ELSE s

RECURSIVE StripSpaces(_)
StripSpaces(s) ==
    IF s # <<>> /\ IsSpace(Head(s)) THEN StripSpaces(Tail(s))
    ELSE IF s # <<>> /\ IsSpace(s[Len(s)]) THEN StripSpaces(SubSeq(s, 1, Len(s) - 1))
    ELSE s

\* The digits of an integer literal: hex digits, with single underscores allowed
\* between two digits.
DigitsWellFormed(d) ==
    /\ d # <<>>
    /\ IsHexDigit(d[1]) /\ IsHexDigit(d[Len(d)])
    /\ \A i \in 1..Len(d) : IsHexDigit(d[i]) \/ d[i] = "_"
    /\ \A i \in 1..(Len(d) - 1) : ~(d[i] = "_" /\ d[i + 1] = "_")

RECURSIVE HexNumber(_)
HexNumber(d) ==
    IF d = <<>> THEN 0
    ELSE IF d[Len(d)] = "_" THEN HexNumber(SubSeq(d, 1, Len(d) - 1))
    ELSE 16 * HexNumber(SubSeq(d, 1, Len(d) - 1)) + HexValue(d[Len(d)])

\* int(s, 16): surrounding whitespace, an optional sign, an optional 0x prefix,
\* then the digits.  [raised |-> TRUE] stands for the ValueError.
IntBase16(s) ==
    LET t      == StripSpaces(s)
        signed == t # <<>> /\ Head(t) \in {"+", "-"}
        u      == IF signed THEN Tail(t) ELSE t
        prefix == Len(u) >= 2 /\ u[1] = "0" /\ u[2] \in {"x", "X"}
        v      == IF prefix THEN Tail(Tail(u)) ELSE u
        d      == IF prefix /\ v # <<>> /\ Head(v) = "_" THEN Tail(v) ELSE v
    IN  IF DigitsWellFormed(d)
        THEN [raised |-> FALSE,
              value  |-> IF signed /\ Head(t) = "-" THEN 0 - HexNumber(d) ELSE HexNumber(d)]
        ELSE [raised |-> TRUE, value |-> 0]

hex_to_rgb(hex_color) ==
    LET h    == LStrip(hex_color, "#")
        part == [i \in 1..3 |-> IntBase16(Slice(h, 2 * (i - 1), 2 * i))]
    IN  IF \E i \in 1..3 : part[i].raised
        THEN [raised |-> TRUE, value |-> <<>>]
        ELSE [raised |-> FALSE, value |-> [i \in 1..3 |-> part[i].value]]

\* s.rsplit('.', 1)[0]: s up to its last '.', all of s when it has none.
RSplitDotFirst(s) ==
    IF \E i \in 1..Len(s) : s[i] = "."
    THEN LET k == CHOOSE i \in 1..Len(s) :
                      s[i] = "." /\ \A j \in (i + 1)..Len(s) : s[j] # "."
         IN  SubSeq(s, 1, k - 1)
    ELSE s

\* str(n) for n >= 0, as an f-string formats frame_idx.
DecimalDigits == <<"0", "1", "2", "3", "4", "5", "6", "7", "8", "9">>

RECURSIVE Str(_)
Str(n) == IF n < 10 THEN <<DecimalDigits[n + 1]>>
          ELSE Str(n \div 10) \o <<DecimalDigits[(n % 10) + 1]>>

\* f"{output_base}{frame_idx}.bin"
OutputBin(base, idx) == base \o Str(idx) \o <<".", "b", "i", "n">>

\* main's choice of output_base: `if args.output:` is false for None and for "".
OutputBase(out, inp) ==
    IF out # None /\ out[1] # <<>>
    THEN out[1]
    ELSE <<"d", "a", "t", "a", "/">> \o RSplitDotFirst(inp)

-----------------------------------------------------------------------------
(* The decoded image: what Image.open(...).convert('RGBA') gives. *)

\* The RGBA pixels the rasters are made of: opaque, at each side of the alpha
\* threshold, fully transparent, and one whose low bits the packing drops.
Palette == << <<248, 0, 0, 255>>, <<0, 252, 0, 128>>, <<0, 0, 248, 127>>,
              <<255, 255, 255, 0>>, <<13, 201, 78, 200>> >>

\* A raster of the given size; its pixels run through the palette, starting at seed.
Raster(w, h, s) == [state |-> "ok", width |-> w, height |-> h, seed |-> s]

NoFile(st) == [state |-> st, width |-> 0, height |-> 0, seed |-> 0]

Rasters == {Raster(w, h, s) : w \in 1..MaxWidth, h \in 1..MaxHeight,
                              s \in 0..(Len(Palette) - 1)}

\* img.getpixel((px, py)) on the whole image.
PixelAt(im, px, py) == Palette[((im.seed + px + im.width * py) % Len(Palette)) + 1]

\* A variant that forgets the frame's offset in the image.
FrameSourceNoOffset(box, fx, fy) == <<fx, fy>>

\* The image coordinate behind (fx, fy) of img.crop(box).
FrameSource(box, fx, fy) == <<box[1] + fx, box[2] + fy>>

\* img.crop(box).getpixel((fx, fy)): the crop is a copy of the box's region.
FrameGetPixel(im, box, fx, fy) ==
    PixelAt(im, FrameSource(box, fx, fy)[1], FrameSource(box, fx, fy)[2])

\* A variant that rounds the frame height up.
FrameHeightCeil(height, n) == (height + n - 1) \div n

\* frame_height = height // rows, for rows # 0: Python's // is the floor of the
\* quotient, for a negative divisor too.
FrameHeight(height, n) ==
    IF n > 0 THEN height \div n ELSE 0 - ((height + (0 - n) - 1) \div (0 - n))

\* A variant whose threshold takes alpha 128 for transparent too.
ResolveInclusive(pixel, colour) ==
    IF pixel[4] <= 128 THEN colour ELSE <<pixel[1], pixel[2], pixel[3]>>

\* `if a < 128: r, g, b = transparent_color`
Resolve(pixel, colour) ==
    IF pixel[4] < 128 THEN colour ELSE <<pixel[1], pixel[2], pixel[3]>>

DefaultTransparent == <<48, 144, 160>>

-----------------------------------------------------------------------------
(* The run. *)

Line(kind, text) == [kind |-> kind, text |-> text]

\* sys.exit(1) after printing `line`.
Exit1(line) ==
    /\ stdout' = Append(stdout, line)
    /\ exit_code' = Some(1)
    /\ pc' = "exited"

\* `except FileNotFoundError:` prints the input path, whatever raised.
HandleFileNotFound == Exit1(Line("not_found", input))

\* `except Exception as e:`
HandleException == Exit1(Line("error", <<>>))

\* A variant that reports success without looking at what is left to do.
LoopDoneAlways(idx, n) == TRUE

\* The frame loop `for frame_idx in range(rows)` has run out.
LoopDone(idx, n) == idx >= n

Main ==
    /\ pc = "main"
    /\ output_base' = OutputBase(output, input)
    /\ pc' = "open"
    /\ UNCHANGED <<input, rows, output, background, png, dir_exists, img, frame_height,
                   transparent_color, frame_idx, frame, x, y, disk, open_file, opens,
                   image_opens, stdout, exit_code, failed_frame, emitted, arg, ret>>

ImageOpen ==
    /\ pc = "open"
    /\ image_opens' = image_opens + 1
    /\ \/ /\ png.state = "missing"
          /\ HandleFileNotFound
          /\ UNCHANGED img
       \/ /\ png.state = "corrupt"
          /\ HandleException
          /\ UNCHANGED img
       \/ /\ png.state = "ok"
          /\ img' = Some(png)
          /\ stdout' = Append(stdout, Line("size", <<>>))
          /\ pc' = "rows"
          /\ UNCHANGED exit_code
    /\ UNCHANGED <<input, rows, output, background, png, dir_exists, output_base,
                   frame_height, transparent_color, frame_idx, frame, x, y, disk,
                   open_file, opens, failed_frame, emitted, arg, ret>>

\* A variant without the rows check: rows = 0 then raises ZeroDivisionError.
CheckRowsUnchecked ==
    /\ pc = "rows"
    /\ \/ /\ rows = 0
          /\ HandleException
          /\ UNCHANGED frame_height
       \/ /\ rows # 0
          /\ frame_height' = FrameHeight(img[1].height, rows)
          /\ stdout' = Append(stdout, Line("sheet", <<>>))
          /\ pc' = "colour"
          /\ UNCHANGED exit_code
    /\ UNCHANGED <<input, rows, output, background, png, dir_exists, output_base, img,
                   transparent_color, frame_idx, frame, x, y, disk, open_file, opens,
                   image_opens, failed_frame, emitted, arg, ret>>

CheckRows ==
    /\ pc = "rows"
    /\ \/ /\ rows < 1
          /\ Exit1(Line("rows_error", <<>>))
          /\ UNCHANGED frame_height
       \/ /\ ~(rows < 1)
          /\ frame_height' = FrameHeight(img[1].height, rows)
          /\ stdout' = Append(stdout, Line("sheet", <<>>))
          /\ pc' = "colour"
          /\ UNCHANGED exit_code
    /\ UNCHANGED <<input, rows, output, background, png, dir_exists, output_base, img,
                   transparent_color, frame_idx, frame, x, y, disk, open_file, opens,
                   image_opens, failed_frame, emitted, arg, ret>>

ResolveColour ==
    /\ pc = "colour"
    /\ \/ /\ background = None
          /\ transparent_color' = DefaultTransparent
          /\ stdout' = Append(stdout, Line("colour", <<>>))
          /\ pc' = "frame"
          /\ UNCHANGED exit_code
       \/ /\ background # None
          /\ ~hex_to_rgb(background[1]).raised
          /\ transparent_color' = hex_to_rgb(background[1]).value
          /\ stdout' = Append(stdout, Line("colour", <<>>))
          /\ pc' = "frame"
          /\ UNCHANGED exit_code
       \/ /\ background # None
          /\ hex_to_rgb(background[1]).raised
          /\ HandleException
          /\ UNCHANGED transparent_color
    /\ UNCHANGED <<input, rows, output, background, png, dir_exists, output_base, img,
                   frame_height, frame_idx, frame, x, y, disk, open_file, opens,
                   image_opens, failed_frame, emitted, arg, ret>>

\* The head of the frame loop: the crop and the open of the frame's file, or,
\* the loop over, the success report and the return to main.
NextFrame ==
    /\ pc = "frame"
    /\ \/ /\ ~LoopDone(frame_idx, rows)
          /\ LET output_bin == OutputBin(output_base, frame_idx)
                 top        == frame_idx * frame_height
             IN  /\ frame' = <<0, top, img[1].width, top + frame_height>>
                 /\ opens' = Append(opens, output_bin)
                 /\ \/ /\ ~dir_exists
                       /\ HandleFileNotFound
                       /\ failed_frame' = Some(frame_idx)
                       /\ UNCHANGED <<disk, open_file, x, y>>
                    \/ /\ dir_exists
                       /\ HandleException
                       /\ failed_frame' = Some(frame_idx)
                       /\ UNCHANGED <<disk, open_file, x, y>>
                    \/ /\ dir_exists
                       /\ disk' = [n \in DOMAIN disk \cup {output_bin} |->
                                      IF n = output_bin THEN <<>> ELSE disk[n]]
                       /\ open_file' = Some(output_bin)
                       /\ x' = 0
                       /\ y' = 0
                       /\ pc' = "pixel"
                       /\ UNCHANGED <<stdout, exit_code, failed_frame>>
       \/ /\ LoopDone(frame_idx, rows)
          /\ stdout' = Append(stdout, Line("success", <<>>))
          /\ exit_code' = Some(0)
          /\ pc' = "exited"
          /\ UNCHANGED <<frame, opens, disk, open_file, x, y, failed_frame>>
    /\ UNCHANGED <<input, rows, output, background, png, dir_exists, output_base, img,
                   frame_height, transparent_color, frame_idx, image_opens, emitted,
                   arg, ret>>

\* One turn of the inner loop: read, resolve, pack, write.
WritePixel ==
    /\ pc = "pixel"
    /\ y < frame_height
    /\ LET pixel  == FrameGetPixel(img[1], frame, x, y)
           colour == Resolve(pixel, transparent_color)
           rgb565 == rgb888_to_rgb565(colour[1], colour[2], colour[3])
           name   == open_file[1]
       IN  \/ /\ disk' = [disk EXCEPT ![name] = @ \o PackBigEndianH(rgb565)]
              /\ emitted' = Append(emitted, [frame |-> frame_idx, at |-> FrameSource(frame, x, y),
                                             pixel |-> pixel, colour |-> colour])
              /\ IF x + 1 < img[1].width
                 THEN x' = x + 1 /\ y' = y
                 ELSE x' = 0 /\ y' = y + 1
              /\ UNCHANGED <<pc, stdout, exit_code, failed_frame, open_file>>
           \/ /\ HandleException
              /\ failed_frame' = Some(frame_idx)
              /\ open_file' = None
              /\ UNCHANGED <<disk, emitted, x, y>>
    /\ UNCHANGED <<input, rows, output, background, png, dir_exists, output_base, img,
                   frame_height, transparent_color, frame_idx, frame, opens,
                   image_opens, arg, ret>>

\* The loops over y and x done: the with-block closes the file, the frame is reported.
CloseFrame ==
    /\ pc = "pixel"
    /\ y >= frame_height
    /\ open_file' = None
    /\ stdout' = Append(stdout, Line("frame", OutputBin(output_base, frame_idx)))
    /\ frame_idx' = frame_idx + 1
    /\ pc' = "frame"
    /\ UNCHANGED <<input, rows, output, background, png, dir_exists, output_base, img,
                   frame_height, transparent_color, frame, x, y, disk, opens,
                   image_opens, exit_code, failed_frame, emitted, arg, ret>>

Next == Main \/ ImageOpen \/ CheckRows \/ ResolveColour \/ NextFrame \/ WritePixel
        \/ CloseFrame

-----------------------------------------------------------------------------
(* The command lines and file systems the runs start from. *)

Fresh ==
    /\ output_base = <<>>
    /\ img = None
    /\ frame_height = 0
    /\ transparent_color = <<>>
    /\ frame_idx = 0
    /\ frame = <<>>
    /\ x = 0
    /\ y = 0
    /\ disk = <<>>
    /\ open_file = None
    /\ opens = <<>>
    /\ image_opens = 0
    /\ stdout = <<>>
    /\ exit_code = None
    /\ failed_frame = None
    /\ emitted = <<>>

Started ==
    /\ pc = "main"
    /\ Fresh
    /\ arg = <<>>
    /\ ret = None

RECURSIVE StringsOver(_, _)
StringsOver(alphabet, n) ==
    IF n = 0 THEN {<<>>}
    ELSE LET shorter == StringsOver(alphabet, n - 1)
         IN  shorter \cup {Append(s, c) : s \in {t \in shorter : Len(t) = n - 1},
                                          c \in alphabet}

TestPng == <<"t", ".", "p", "n", "g">>

InputArgs == {TestPng, <<"s", "/">> \o TestPng}

OutputArgs == {None, Some(<<"o">>)}

BackgroundArgs ==
    {None,
     Some(<<"#", "3", "0", "9", "0", "A", "0">>),
     Some(<<"f", "F", "0", "0", "c", "8">>),
     Some(<<"Z", "Z", "Z", "Z", "Z", "Z">>),
     Some(<<"1", "2", "3", "4", "5">>)}

Init ==
    /\ input \in InputArgs
    /\ rows \in (-1)..MaxRows
    /\ output \in OutputArgs
    /\ background \in BackgroundArgs
    /\ png \in {NoFile("missing"), NoFile("corrupt")} \cup Rasters
    /\ dir_exists \in BOOLEAN
    /\ Started

Spec == Init /\ [][Next]_vars

-----------------------------------------------------------------------------
(* Runs over every --bg string of a small alphabet, and over every input path. *)

\* '#', a digit, a lower-case and an upper-case hex letter, and a letter that is
\* no hex digit.
BgAlphabet == {"#", "3", "a", "F", "Z"}

\* A 1x1 image whose only pixel is transparent: the run converts the colour.
TransparentDot == Raster(1, 1, 2)

\* The command lines and file systems that take the run through its error paths.
ErrorPaths ==
    /\ input = TestPng
    /\ output = None
    /\ background \in {None, Some(<<"Z", "Z", "Z", "Z", "Z", "Z">>)}
    /\ rows \in {0, 1}
    /\ png \in {NoFile("missing"), NoFile("corrupt"), TransparentDot}
    /\ dir_exists \in BOOLEAN

InitBg ==
    /\ \/ /\ input = TestPng
          /\ output = None
          /\ background \in {Some(str) : str \in StringsOver(BgAlphabet, MaxBgLen)}
          /\ rows = 1
          /\ png = TransparentDot
          /\ dir_exists = TRUE
       \/ ErrorPaths
    /\ Started

SpecBg == InitBg /\ [][Next]_vars

PathAlphabet == {"t", ".", "/"}

OutputPathArgs == {None, Some(<<>>), Some(<<"o">>), Some(<<"o", "/">>)}

\* The paths of files: a path that is empty or ends in '/' names none.
FilePaths == {path \in StringsOver(PathAlphabet, MaxPathLen) :
                 path # <<>> /\ path[Len(path)] # "/"}

InitPaths ==
    /\ \/ /\ input \in FilePaths
          /\ output \in OutputPathArgs
          /\ background = None
          /\ rows = 1
          /\ png = TransparentDot
          /\ dir_exists = TRUE
       \/ ErrorPaths
    /\ Started

SpecPaths == InitPaths /\ [][Next]_vars

-----------------------------------------------------------------------------
(* rgb888_to_rgb565 applied on its own. *)

\* No program is running: only arg and ret are in use.
NoRun ==
    /\ input = <<>>
    /\ rows = 1
    /\ output = None
    /\ background = None
    /\ png = NoFile("missing")
    /\ dir_exists = FALSE
    /\ Fresh

ChannelSamples == {0, 7, 8, 248, 252, 255}

\* Each channel over its whole range against samples of the other two.
PackArgs ==
    {<<r, g, b>> : r \in 0..255, g \in ChannelSamples, b \in ChannelSamples}
    \cup {<<r, g, b>> : r \in ChannelSamples, g \in 0..255, b \in ChannelSamples}
    \cup {<<r, g, b>> : r \in ChannelSamples, g \in ChannelSamples, b \in 0..255}

InitPack ==
    /\ NoRun
    /\ pc = "call"
    /\ arg \in PackArgs
    /\ ret = None

ApplyPack ==
    /\ pc = "call"
    /\ ret' = Some(rgb888_to_rgb565(arg[1], arg[2], arg[3]))
    /\ pc' = "returned"
    /\ UNCHANGED <<input, rows, output, background, png, dir_exists, output_base, img,
                   frame_height, transparent_color, frame_idx, frame, x, y, disk,
                   open_file, opens, image_opens, stdout, exit_code, failed_frame,
                   emitted, arg>>

NextPack == ApplyPack

SpecPack == InitPack /\ [][NextPack]_vars

-----------------------------------------------------------------------------
(* The claims. *)

\* C1: for every r, g, b in 0..255 rgb888_to_rgb565 returns the truncated channels
\* side by side, (r >> 3) in bits 15-11, (g >> 2) in bits 10-5 and (b >> 3) in bits
\* 4-0, a value in 0..0xFFFF; white packs to 0xFFFF, black to 0, (248,0,0) to
\* 0xF800, (0,252,0) to 0x07E0 and (0,0,248) to 0x001F.
C1_PackTruncates ==
    pc = "returned" =>
        /\ ret[1] = (arg[1] \div 8) * 2048 + (arg[2] \div 4) * 32 + (arg[3] \div 8)
        /\ ret[1] \in 0..65535
        /\ arg = <<255, 255, 255>> => ret[1] = 65535
        /\ arg = <<0, 0, 0>> => ret[1] = 0
        /\ arg = <<248, 0, 0>> => ret[1] = 63488
        /\ arg = <<0, 252, 0>> => ret[1] = 2016
        /\ arg = <<0, 0, 248>> => ret[1] = 31

C1_Witness == pc = "returned" /\ arg = <<0, 252, 0>> /\ ret = Some(2016)

\* What the claims call a well-formed override: an optional single leading '#'
\* followed by exactly 6 hexadecimal digits, in either case.
HexBody(str) == IF str # <<>> /\ Head(str) = "#" THEN Tail(str) ELSE str

ValidHexColour(str) ==
    /\ Len(HexBody(str)) = 6
    /\ \A i \in 1..6 : IsHexDigit(HexBody(str)[i])

\* (RR, GG, BB) of a well-formed override.
HexColourBytes(str) ==
    [i \in 1..3 |-> 16 * HexValue(HexBody(str)[2 * i - 1]) + HexValue(HexBody(str)[2 * i])]

\* The substitution colour of the run: the default without an override, the bytes
\* of a well-formed override, and otherwise whatever the parse made of it.
SubstitutionColour ==
    IF background = None THEN <<48, 144, 160>>
    ELSE IF ValidHexColour(background[1]) THEN HexColourBytes(background[1])
    ELSE transparent_color

\* The colour a raster pixel is converted as, and its 16-bit value.
ResolvedColour(pixel) ==
    IF pixel[4] >= 128 THEN <<pixel[1], pixel[2], pixel[3]>> ELSE SubstitutionColour

PackedValue(pixel) ==
    LET c == ResolvedColour(pixel)
    IN  (c[1] \div 8) * 2048 + (c[2] \div 4) * 32 + (c[3] \div 8)

\* {base}{i}.bin for i < 10
FrameFile(i) == output_base \o <<DecimalDigits[i + 1]>> \o <<".", "b", "i", "n">>

Printed(kind) == \E i \in 1..Len(stdout) : stdout[i].kind = kind

\* C2: every pixel emitted is packed from the substitution colour when its alpha
\* is below 128 and from its own (r,g,b) when its alpha is 128 or more; the
\* substitution colour is (48,144,160) without an override and the parsed
\* override otherwise.
C2_TransparencyThreshold ==
    /\ transparent_color # <<>> => transparent_color = SubstitutionColour
    /\ \A i \in 1..Len(emitted) :
          LET e == emitted[i]
          IN  /\ e.pixel[4] < 128 => e.colour = SubstitutionColour
              /\ e.pixel[4] >= 128 => e.colour = <<e.pixel[1], e.pixel[2], e.pixel[3]>>

C2_Witness ==
    /\ background # None
    /\ ValidHexColour(background[1])
    /\ \E i, j \in 1..Len(emitted) :
          /\ emitted[i].pixel[4] = 127 /\ emitted[i].colour = HexColourBytes(background[1])
          /\ emitted[j].pixel[4] = 128 /\ emitted[j].colour = <<0, 252, 0>>

\* C3: after a successful conversion the file of frame i is w * fh * 2 bytes long,
\* and the bytes at 2*(y*w + x) and 2*(y*w + x) + 1 are the high and the low byte
\* of the packed, transparency-resolved raster pixel (x, i*fh + y).
C3_FileLayout ==
    exit_code = Some(0) =>
        LET w  == png.width
            fh == png.height \div rows
        IN  \A i \in 0..(rows - 1) :
                /\ FrameFile(i) \in DOMAIN disk
                /\ Len(disk[FrameFile(i)]) = w * fh * 2
                /\ \A xx \in 0..(w - 1), yy \in 0..(fh - 1) :
                      LET v   == PackedValue(PixelAt(png, xx, i * fh + yy))
                          off == 2 * (yy * w + xx)
                      IN  /\ disk[FrameFile(i)][off + 1] = v \div 256
                          /\ disk[FrameFile(i)][off + 2] = v % 256

C3_Witness ==
    /\ exit_code = Some(0)
    /\ rows = 2
    /\ png.width = 2
    /\ png.height = 3
    /\ Len(disk[FrameFile(1)]) = 4

\* C4: a successful conversion with rows >= 1 leaves exactly the files {base}0.bin
\* .. {base}{rows-1}.bin; frame_height is height div rows; frame i reads exactly the
\* raster rows i*frame_height .. (i+1)*frame_height - 1, so a raster row below
\* rows*frame_height is read by one frame and a row from there on by none.
RowsRead(i) == {emitted[k].at[2] : k \in {j \in 1..Len(emitted) : emitted[j].frame = i}}

C4_FrameSplit ==
    exit_code = Some(0) =>
        LET fh == png.height \div rows
        IN  /\ rows >= 1
            /\ DOMAIN disk = {FrameFile(i) : i \in 0..(rows - 1)}
            /\ Cardinality(DOMAIN disk) = rows
            /\ frame_height = fh
            /\ \A i \in 0..(rows - 1) : RowsRead(i) = (i * fh)..((i + 1) * fh - 1)
            /\ \A yy \in 0..(png.height - 1) :
                  Cardinality({i \in 0..(rows - 1) : yy \in RowsRead(i)})
                      = IF yy < rows * fh THEN 1 ELSE 0

C4_Witness ==
    /\ exit_code = Some(0)
    /\ rows = 2
    /\ png.height = 3
    /\ frame_height = 1
    /\ Cardinality(DOMAIN disk) = 2
    /\ \A i \in 0..1 : 2 \notin RowsRead(i)

\* C5: with rows < 1 the run ends with a non-zero exit status, and no output file
\* is created or opened for writing, whatever the input file and --bg.
C5_RowsBelowOne ==
    rows < 1 =>
        /\ DOMAIN disk = {}
        /\ opens = <<>>
        /\ open_file = None
        /\ ~Printed("success")
        /\ pc = "exited" => exit_code = Some(1)

C5_Witness ==
    /\ rows < 1
    /\ png.state = "ok"
    /\ background # None
    /\ pc = "exited"
    /\ exit_code = Some(1)
    /\ Printed("rows_error")

\* C6: a run whose --bg is not a well-formed colour exits non-zero without ever
\* reaching the open and decode of the input image.
C6_BadColourBeforeDecode ==
    (background # None /\ ~ValidHexColour(background[1])) =>
        /\ image_opens = 0
        /\ img = None
        /\ pc = "exited" => exit_code = Some(1)

\* C7: an override is accepted if and only if it is an optional single '#' and
\* exactly 6 hex digits, and then parses to (RR, GG, BB); any other string ends
\* the run with a non-zero exit and no pixel converted with a colour made from it.
C7_OverrideWellFormed ==
    background # None =>
        /\ transparent_color # <<>> =>
              /\ ValidHexColour(background[1])
              /\ transparent_color = HexColourBytes(background[1])
        /\ ~ValidHexColour(background[1]) =>
              /\ emitted = <<>>
              /\ exit_code # Some(0)
        /\ (ValidHexColour(background[1]) /\ pc = "exited" /\ png.state = "ok" /\ rows >= 1)
              => transparent_color # <<>>

\* C8: without --output the base is "data/" and the input's filename without its
\* directories and without its extension, so that t.t is written to data/t0.bin;
\* with --output the base is that string.
LastIndexOf(str, c) ==
    IF \E i \in 1..Len(str) : str[i] = c
    THEN CHOOSE i \in 1..Len(str) : str[i] = c /\ \A j \in (i + 1)..Len(str) : str[j] # c
    ELSE 0

Basename(path) == SubSeq(path, LastIndexOf(path, "/") + 1, Len(path))

WithoutExtension(name) ==
    IF LastIndexOf(name, ".") = 0 THEN name
    ELSE SubSeq(name, 1, LastIndexOf(name, ".") - 1)

C8_OutputBase ==
    pc # "main" =>
        /\ output = None =>
              output_base = <<"d", "a", "t", "a", "/">> \o WithoutExtension(Basename(input))
        /\ output # None => output_base = output[1]
        /\ (output = None /\ Basename(input) = <<"t", ".", "t">> /\ exit_code = Some(0)) =>
              DOMAIN disk = {<<"d", "a", "t", "a", "/", "t", "0", ".", "b", "i", "n">>}

\* C9: the frames are opened in ascending index order; a failure at frame k ends
\* the run with a non-zero exit and no success report, no file of an index above k
\* exists and the files below k are complete; success is reported only with all
\* `rows` files complete and closed.
C9_AbortOnFailure ==
    LET size == png.width * frame_height * 2
    IN  /\ \A i \in 1..Len(opens) : opens[i] = FrameFile(i - 1)
        /\ failed_frame # None =>
              /\ pc = "exited"
              /\ exit_code = Some(1)
              /\ ~Printed("success")
              /\ open_file = None
              /\ \A i \in 0..(rows - 1) :
                    /\ i > failed_frame[1] => FrameFile(i) \notin DOMAIN disk
                    /\ i < failed_frame[1] =>
                          /\ FrameFile(i) \in DOMAIN disk
                          /\ Len(disk[FrameFile(i)]) = size
        /\ (exit_code = Some(0) \/ Printed("success")) =>
              /\ exit_code = Some(0)
              /\ failed_frame = None
              /\ open_file = None
              /\ Len(opens) = rows
              /\ \A i \in 0..(rows - 1) :
                    /\ FrameFile(i) \in DOMAIN disk
                    /\ Len(disk[FrameFile(i)]) = size

C9_Witness ==
    /\ failed_frame = Some(1)
    /\ rows = 3
    /\ frame_height = 1
    /\ exit_code = Some(1)
    /\ Len(disk[FrameFile(0)]) = png.width * 2
    /\ FrameFile(2) \notin DOMAIN disk

\* C10: "File not found", naming the input path, is printed if and only if the
\* input path is no existing file; a failure on an output file is never reported so.
C10_NotFoundMeansInput ==
    /\ Printed("not_found") => png.state = "missing"
    /\ (pc = "exited" /\ png.state = "missing") => Printed("not_found")
    /\ failed_frame # None => (~Printed("not_found") /\ exit_code = Some(1))

====
